---- MODULE Spec2Model ----
(***************************************************************************)
(* csv2struct: a decoder that binds CSV rows ([]string) to a struct.       *)
(* NewDecodeStruct builds the column descriptors from the struct's fields, *)
(* ParseHeader reconciles a header with them, UnmarshalCSV / GetStruct     *)
(* decode one row through the cached binding.                              *)
(*                                                                         *)
(* src/csv_to_struct.go holds two variants of the package: lines 1-258     *)
(* (variant 1) and lines 260-540 (variant 2).  They share                  *)
(* NewDecodeStruct, ParseHeader, UnmarshalCSV and reset and differ in      *)
(* unmarshal, setField and isSupportedField.  The variable `variant` says  *)
(* which one a behaviour runs.                                             *)
(*                                                                         *)
(* A Go string is a sequence of one-character strings, a Go type a         *)
(* sequence of kinds (<<"ptr", "int8">> is *int8), a slice index is kept   *)
(* 0-based as in the code (cell i of a row is record[i + 1] here).         *)
(***************************************************************************)
EXTENDS Integers, Sequences, FiniteSets, TLC

VARIABLES
    variant,    \* 1 or 2: the variant of the package that runs
    shape,      \* the struct type given to NewDecodeStruct: its fields in order
    status,     \* "unbuilt", "built", or "panic" when NewDecodeStruct panicked
    cols,       \* DecodeStruct.cols: the csvFieldInfo of every column
    foundCols,  \* DecodeStruct.foundCols: pointers into cols (1-based indices)
    op,         \* the last operation: "New", "ParseHeader", "UnmarshalCSV", "GetStruct"
    header,     \* argument of the last ParseHeader
    hdrErr,     \* error returned by the last ParseHeader
    prevOK,     \* the last call was a ParseHeader that followed a ParseHeader
                \* which returned nil
    record,     \* argument of the last UnmarshalCSV / GetStruct
    vType,      \* type of the struct v pointed to in the last decode
    rv0,        \* fields of v when the last decode was called
    rv,         \* fields of v when the last decode returned
    decErr,     \* error returned by the last decode
    ret         \* what the last GetStruct returned: "v", "nil" ("none" otherwise)

vars == <<variant, shape, status, cols, foundCols, op, header, hdrErr, prevOK,
          record, vType, rv0, rv, decErr, ret>>

\* ------------------------------------------------------------------ bounds
\* Longest header given to ParseHeader.
MaxHeaderLen == 3
\* Longest row given to UnmarshalCSV / GetStruct.
MaxRowLen == 3

\* ------------------------------------------------------------------ strings
UpperChars == <<"A","B","C","D","E","F","G","H","I","J","K","L","M",
                "N","O","P","Q","R","S","T","U","V","W","X","Y","Z">>
LowerChars == <<"a","b","c","d","e","f","g","h","i","j","k","l","m",
                "n","o","p","q","r","s","t","u","v","w","x","y","z">>
Digits == <<"0","1","2","3","4","5","6","7","8","9">>

IsUpper(c) == \E i \in 1..Len(UpperChars) : UpperChars[i] = c
IsLowerLetter(c) == \E i \in 1..Len(LowerChars) : LowerChars[i] = c
IsDigit(c) == \E i \in 1..Len(Digits) : Digits[i] = c
DigitVal(c) == (CHOOSE i \in 1..Len(Digits) : Digits[i] = c) - 1
IsSpace(c) == c \in {" ", "\t", "\n", "\r"}

LowerChar(c) ==
    IF IsUpper(c) THEN LowerChars[CHOOSE i \in 1..Len(UpperChars) : UpperChars[i] = c]
    ELSE c
UpperChar(c) ==
    IF IsLowerLetter(c) THEN UpperChars[CHOOSE i \in 1..Len(LowerChars) : LowerChars[i] = c]
    ELSE c

\* strings.ToLower
ToLower(s) == [i \in 1..Len(s) |-> LowerChar(s[i])]
\* strings.ToUpper (used only to spell header cells)
ToUpper(s) == [i \in 1..Len(s) |-> UpperChar(s[i])]

\* strings.TrimSpace: drop the leading and the trailing white space
TrimSpace(s) ==
    LET keep == {i \in 1..Len(s) : ~IsSpace(s[i])} IN
    IF keep = {} THEN <<>>
    ELSE LET lo == CHOOSE i \in keep : \A j \in keep : i <= j
             hi == CHOOSE i \in keep : \A j \in keep : j <= i
         IN  SubSeq(s, lo, hi)

\* strings.Split(s, sep) for a one-character separator
RECURSIVE Split(_, _)
Split(s, sep) ==
    LET at == {i \in 1..Len(s) : s[i] = sep} IN
    IF at = {} THEN <<s>>
    ELSE LET i == CHOOSE k \in at : \A j \in at : k <= j
         IN  <<SubSeq(s, 1, i - 1)>> \o Split(SubSeq(s, i + 1, Len(s)), sep)

defaultCSVTagFieldSep == ","
RequiredFlag == <<"r","e","q","u","i","r","e","d">>
IgnoreTag == <<"-">>

\* ------------------------------------------------------------------ types
IntKinds == {"int", "int8", "int16", "int64"}
UintKinds == {"uint", "uint8", "uint16", "uint64"}
FloatKinds == {"float32", "float64"}
\* reflect kinds of the model's types other than the scalars and pointers
OtherKinds == {"map", "slice", "array", "chan", "struct"}

\* reflect.Type.Kind: time.Time and an anonymous struct both have kind Struct
Kind(t) == IF t[1] \in {"time.Time", "struct"} THEN "struct" ELSE t[1]
\* reflect.Type.String, as far as the code reads it
TypeString(t) == t[1]
\* reflect.Type.Elem of a pointer type
Elem(t) == Tail(t)

\* isSupportedField, variant 1 (the switch lists the supported kinds) and
\* variant 2 (the switch lists map, slice, array and defaults to true)
RECURSIVE isSupportedField(_, _)
isSupportedField(v, t) ==
    IF Kind(t) = "ptr" THEN isSupportedField(v, Elem(t))
    ELSE IF Kind(t) = "struct" THEN TypeString(t) = "time.Time"
    ELSE IF v = 1
         THEN Kind(t) \in IntKinds \cup UintKinds \cup FloatKinds \cup {"bool", "string"}
         ELSE Kind(t) \notin {"map", "slice", "array"}

\* ------------------------------------------------------------------ build
\* the csvFieldInfo NewDecodeStruct appends for field i (0-based) of the struct
FieldInfo(f, i) ==
    LET csvTag == f.Tag
        tagFields == Split(csvTag, defaultCSVTagFieldSep)
        headerName == IF Len(csvTag) > 0 THEN tagFields[1] ELSE f.Name
        required == Len(csvTag) > 0 /\ Len(tagFields) > 1 /\ tagFields[2] = RequiredFlag
    IN  [Header |-> ToLower(headerName), Required |-> required,
         StructFieldIndex |-> i, RecordIndex |-> -1]

\* the loop of NewDecodeStruct over the fields from the k-th on, cs being the
\* columns appended so far: the type check comes first, then the "-" tag
RECURSIVE BuildFrom(_, _, _, _)
BuildFrom(v, sh, k, cs) ==
    IF k > Len(sh) THEN [panicked |-> FALSE, cols |-> cs]
    ELSE IF ~isSupportedField(v, sh[k].Type) THEN [panicked |-> TRUE, cols |-> <<>>]
    ELSE IF sh[k].Tag = IgnoreTag THEN BuildFrom(v, sh, k + 1, cs)
    ELSE BuildFrom(v, sh, k + 1, Append(cs, FieldInfo(sh[k], k - 1)))

NewDecodeStructResult(v, sh) == BuildFrom(v, sh, 1, <<>>)

\* ------------------------------------------------------------------ errors
Nil == [kind |-> "nil", what |-> "", arg |-> <<>>]
\* NewIncorrectFileErr(fmt.Sprintf(what + " %q" ..., arg))
NewIncorrectFileErr(what, arg) == [kind |-> "IncorrectFileErr", what |-> what, arg |-> arg]
RowShapeErr ==
    [kind |-> "error", what |-> "csv record must have same column with csv header",
     arg |-> <<>>]
TypeMismatchErr ==
    [kind |-> "error",
     what |-> "second argument of UnmarshalCSV function must be a pointer to",
     arg |-> <<>>]
UnsupportedErr ==
    [kind |-> "error",
     what |-> "CSV struct reader does not support struct field with type",
     arg |-> <<>>]
\* *strconv.NumError, *time.ParseError: the parse errors, with the text parsed
ParseErr(what, s) == [kind |-> "parse", what |-> what, arg |-> s]
IsParseErr(e) == e.kind = "parse"

\* ------------------------------------------------------------------ strconv
\* strconv.IntSize of the build the model describes (a 64-bit platform)
IntSize == 64
MaxInt64Digits ==
    <<"9","2","2","3","3","7","2","0","3","6","8","5","4","7","7","5","8","0","7">>
MinInt64Digits ==
    <<"9","2","2","3","3","7","2","0","3","6","8","5","4","7","7","5","8","0","8">>
MaxUint64Digits ==
    <<"1","8","4","4","6","7","4","4","0","7","3","7","0","9","5","5","1","6","1","5">>

AllDigits(s) == \A i \in 1..Len(s) : IsDigit(s[i])

StripZeros(ds) ==
    LET nz == {i \in 1..Len(ds) : ds[i] # "0"} IN
    IF nz = {} THEN <<>>
    ELSE SubSeq(ds, CHOOSE i \in nz : \A j \in nz : i <= j, Len(ds))

\* x and y without leading zeros: the number written by x is the greater one
LongerOrLater(x, y) ==
    \/ Len(x) > Len(y)
    \/ /\ Len(x) = Len(y)
       /\ \E i \in 1..Len(x) :
            /\ DigitVal(x[i]) > DigitVal(y[i])
            /\ \A j \in 1..(i - 1) : x[j] = y[j]
\* the number written by the digits a is greater than the one written by b
GreaterDigits(a, b) == LongerOrLater(StripZeros(a), StripZeros(b))

\* the number written by the digits ds
RECURSIVE DecVal(_)
DecVal(ds) ==
    IF ds = <<>> THEN 0
    ELSE DecVal(SubSeq(ds, 1, Len(ds) - 1)) * 10 + DigitVal(ds[Len(ds)])

Pow2(n) == 2 ^ n

\* strconv.ParseBool
ParseBool(s) ==
    IF s \in {<<"1">>, <<"t">>, <<"T">>, <<"T","R","U","E">>, <<"t","r","u","e">>,
              <<"T","r","u","e">>}
    THEN [err |-> Nil, val |-> TRUE]
    ELSE IF s \in {<<"0">>, <<"f">>, <<"F">>, <<"F","A","L","S","E">>,
                   <<"f","a","l","s","e">>, <<"F","a","l","s","e">>}
    THEN [err |-> Nil, val |-> FALSE]
    ELSE [err |-> ParseErr("ParseBool: invalid syntax", s), val |-> FALSE]

\* strconv.ParseUint(s, 10, 0)
ParseUint(s) ==
    IF s = <<>> \/ ~AllDigits(s)
    THEN [err |-> ParseErr("ParseUint: invalid syntax", s), val |-> 0]
    ELSE IF GreaterDigits(s, MaxUint64Digits)
    THEN [err |-> ParseErr("ParseUint: value out of range", s), val |-> 0]
    ELSE [err |-> Nil, val |-> DecVal(s)]

\* strconv.ParseInt(s, 10, 0)
ParseInt(s) ==
    LET signed == s # <<>> /\ s[1] \in {"+", "-"}
        neg == s # <<>> /\ s[1] = "-"
        body == IF signed THEN Tail(s) ELSE s
    IN  IF body = <<>> \/ ~AllDigits(body)
        THEN [err |-> ParseErr("ParseInt: invalid syntax", s), val |-> 0]
        ELSE IF GreaterDigits(body, IF neg THEN MinInt64Digits ELSE MaxInt64Digits)
        THEN [err |-> ParseErr("ParseInt: value out of range", s), val |-> 0]
        ELSE [err |-> Nil, val |-> IF neg THEN 0 - DecVal(body) ELSE DecVal(body)]

\* strconv.ParseFloat(s, 64) on plain decimal text: sign, digits, one optional
\* point.  The value is kept as its decimal digits.  (Exponents, hexadecimal
\* text, "inf" and "nan" are outside the rows of the model.)
FloatVal(neg, ip, fp) ==
    LET rev == [i \in 1..Len(fp) |-> fp[Len(fp) + 1 - i]]
        cut == StripZeros(rev)
    IN  [neg |-> neg, ip |-> StripZeros(ip), fp |-> SubSeq(fp, 1, Len(cut))]
ParseFloat(s) ==
    LET signed == s # <<>> /\ s[1] \in {"+", "-"}
        neg == s # <<>> /\ s[1] = "-"
        body == IF signed THEN Tail(s) ELSE s
        dots == {i \in 1..Len(body) : body[i] = "."}
        dot == IF dots = {} THEN Len(body) + 1 ELSE CHOOSE i \in dots : TRUE
        ip == SubSeq(body, 1, dot - 1)
        fp == SubSeq(body, dot + 1, Len(body))
    IN  IF Cardinality(dots) <= 1 /\ AllDigits(ip) /\ AllDigits(fp)
           /\ Len(ip) + Len(fp) >= 1
        THEN [err |-> Nil, val |-> FloatVal(neg, ip, fp)]
        ELSE [err |-> ParseErr("ParseFloat: invalid syntax", s),
              val |-> FloatVal(FALSE, <<>>, <<>>)]

\* ------------------------------------------------------------------ time
\* r.timeFormat is time.RFC3339, "2006-01-02T15:04:05Z07:00"
DaysIn(y, m) ==
    IF m \in {4, 6, 9, 11} THEN 30
    ELSE IF m = 2
         THEN (IF (y % 4 = 0 /\ y % 100 # 0) \/ y % 400 = 0 THEN 29 ELSE 28)
         ELSE 31
ZeroTime == [y |-> 1, mo |-> 1, d |-> 1, h |-> 0, mi |-> 0, s |-> 0, off |-> 0]
\* time.Parse(time.RFC3339, s) on text without fractional seconds
ParseTime(s) ==
    LET n == Len(s)
        num(a, b) == DecVal(SubSeq(s, a, b))
        shapeOK ==
            /\ n \in {20, 25}
            /\ \A i \in {1, 2, 3, 4, 6, 7, 9, 10, 12, 13, 15, 16, 18, 19} : IsDigit(s[i])
            /\ s[5] = "-" /\ s[8] = "-" /\ s[11] = "T" /\ s[14] = ":" /\ s[17] = ":"
            /\ n = 20 => s[20] = "Z"
            /\ n = 25 => /\ s[20] \in {"+", "-"}
                         /\ \A i \in {21, 22, 24, 25} : IsDigit(s[i])
                         /\ s[23] = ":"
        rangeOK ==
            /\ num(6, 7) \in 1..12
            /\ num(9, 10) \in 1..DaysIn(num(1, 4), num(6, 7))
            /\ num(12, 13) < 24 /\ num(15, 16) < 60 /\ num(18, 19) < 60
            /\ n = 25 => (num(21, 22) < 24 /\ num(24, 25) < 60)
        off == IF n = 25
               THEN (IF s[20] = "-" THEN -1 ELSE 1) * (num(21, 22) * 60 + num(24, 25))
               ELSE 0
    IN  IF shapeOK /\ rangeOK
        THEN [err |-> Nil,
              val |-> [y |-> num(1, 4), mo |-> num(6, 7), d |-> num(9, 10),
                       h |-> num(12, 13), mi |-> num(15, 16), s |-> num(18, 19),
                       off |-> off]]
        ELSE [err |-> ParseErr("time.Parse: cannot parse", s), val |-> ZeroTime]

\* ------------------------------------------------------------------ values
\* A field's value: a string is its characters, an integer a number, a float
\* its decimal digits, a time its fields, a pointer <<>> (nil) or <<pointee>>.
BaseKind(t) == t[Len(t)]

Zero(t) ==
    IF Kind(t) \in IntKinds \cup UintKinds THEN 0
    ELSE IF Kind(t) = "bool" THEN FALSE
    ELSE IF Kind(t) \in FloatKinds THEN FloatVal(FALSE, <<>>, <<>>)
    ELSE IF TypeString(t) = "time.Time" THEN ZeroTime
    ELSE <<>>

\* reflect.New(r.recordType): every field zero
ZeroRecord(sh) == [i \in 1..Len(sh) |-> Zero(sh[i].Type)]

\* bits of an integer kind
Bits(k) ==
    IF k \in {"int8", "uint8"} THEN 8
    ELSE IF k \in {"int16", "uint16"} THEN 16
    ELSE IntSize

\* reflect.Value.SetInt / SetUint: the value is converted to the field's type,
\* keeping its low bits
SetInt(k, x) ==
    IF Bits(k) = IntSize THEN x
    ELSE ((x + Pow2(Bits(k) - 1)) % Pow2(Bits(k))) - Pow2(Bits(k) - 1)
SetUint(k, x) == IF Bits(k) = IntSize THEN x ELSE x % Pow2(Bits(k))

\* what a parse gives setField: the error, whether the field was written, its value
Wrote(x) == [err |-> Nil, written |-> TRUE, val |-> x]
Failed(e) == [err |-> e, written |-> FALSE, val |-> <<>>]

\* the cases of setField (variant 1) and of setCustomField (variant 2) on the
\* scalar kinds: both switch on the kind and parse alike
\* "if err != nil { return err }" after a parse p, then the Set of its value
ReturnOrSet(p) == IF p.err # Nil THEN Failed(p.err) ELSE Wrote(p.val)
ReturnOrSetInt(k, p) == IF p.err # Nil THEN Failed(p.err) ELSE Wrote(SetInt(k, p.val))
ReturnOrSetUint(k, p) == IF p.err # Nil THEN Failed(p.err) ELSE Wrote(SetUint(k, p.val))

SetScalar(t, s) ==
    IF Kind(t) = "string" THEN Wrote(s)
    ELSE IF Kind(t) = "bool" THEN ReturnOrSet(ParseBool(s))
    ELSE IF Kind(t) \in IntKinds THEN ReturnOrSetInt(Kind(t), ParseInt(s))
    ELSE IF Kind(t) \in UintKinds THEN ReturnOrSetUint(Kind(t), ParseUint(s))
    ELSE IF Kind(t) \in FloatKinds THEN ReturnOrSet(ParseFloat(s))
    ELSE Failed(UnsupportedErr)

SetTime(s) == ReturnOrSet(ParseTime(s))

\* a pointer field set to a new value of type t, then the pointee set with
\* outcome r: the pointer is written whatever r is
SetPointee(t, r) ==
    [err |-> r.err, written |-> TRUE, val |-> <<IF r.written THEN r.val ELSE Zero(t)>>]

\* setField of variant 1: a pointer is set to a new zero value first, whatever
\* the parse of the pointee does, then the pointee is set
RECURSIVE setField1(_, _)
setField1(t, s) ==
    IF Kind(t) = "ptr"
    THEN SetPointee(Elem(t), setField1(Elem(t), s))
    ELSE IF Kind(t) = "struct"
    THEN (IF TypeString(t) # "time.Time" THEN Failed(UnsupportedErr) ELSE SetTime(s))
    ELSE SetScalar(t, s)

\* setCustomField of variant 2: by kind, no pointer and no time case
setCustomField(t, s) ==
    IF Kind(t) \in {"ptr", "struct"} THEN Failed(UnsupportedErr) ELSE SetScalar(t, s)

\* the type switch of setField of variant 2, whose default is setCustomField
typeSwitch(t, s) ==
    IF TypeString(t) = "time.Time" THEN SetTime(s)
    ELSE IF Kind(t) \in IntKinds \cup UintKinds \cup FloatKinds \cup {"bool", "string"}
    THEN SetScalar(t, s)
    ELSE setCustomField(t, s)

\* setField of variant 2: one level of pointer is unwrapped, then the type switch
setField2(t, s) ==
    IF Kind(t) = "ptr" THEN SetPointee(Elem(t), typeSwitch(Elem(t), s))
    ELSE typeSwitch(t, s)

setField(v, t, s) == IF v = 1 THEN setField1(t, s) ELSE setField2(t, s)

\* reflect.Value.CanSet of a field of an addressable struct: the field is exported
CanSet(f) == IsUpper(f.Name[1])

\* ------------------------------------------------------------------ ParseHeader
\* reset that empties foundCols and leaves every RecordIndex as it is
resetKeepsIndex(cs, fc) == [cols |-> cs, foundCols |-> <<>>]

\* reset: every RecordIndex back to -1, foundCols emptied
reset(cs, fc) ==
    [cols |-> [j \in 1..Len(cs) |-> [cs[j] EXCEPT !.RecordIndex = -1]],
     foundCols |-> <<>>]

\* an inner loop that appends a column to foundCols only the first time a
\* header cell names it, and still moves its RecordIndex to the later cell
RECURSIVE MatchColsAppendsOnce(_, _, _, _, _, _)
MatchColsAppendsOnce(cs, fc, col, i, j, found) ==
    IF j > Len(cs) THEN [cols |-> cs, foundCols |-> fc, found |-> found]
    ELSE IF cs[j].Header = col
    THEN MatchColsAppendsOnce([cs EXCEPT ![j].RecordIndex = i],
                              IF \E k \in 1..Len(fc) : fc[k] = j THEN fc ELSE Append(fc, j),
                              col, i, j + 1, TRUE)
    ELSE MatchColsAppendsOnce(cs, fc, col, i, j + 1, found)

\* the inner loop of ParseHeader, from column j on: every column whose Header
\* is col gets RecordIndex i and is appended to foundCols
RECURSIVE MatchCols(_, _, _, _, _, _)
MatchCols(cs, fc, col, i, j, found) ==
    IF j > Len(cs) THEN [cols |-> cs, foundCols |-> fc, found |-> found]
    ELSE IF cs[j].Header = col
    THEN MatchCols([cs EXCEPT ![j].RecordIndex = i], Append(fc, j), col, i, j + 1, TRUE)
    ELSE MatchCols(cs, fc, col, i, j + 1, found)

\* the check after the header loop: the first required column left unbound
CheckRequired(cs) ==
    LET missing == {j \in 1..Len(cs) : cs[j].Required /\ cs[j].RecordIndex = -1} IN
    IF missing = {} THEN Nil
    ELSE NewIncorrectFileErr("Mandatory column is missing",
                             cs[CHOOSE j \in missing : \A k \in missing : j <= k].Header)

\* a header loop that skips a header cell of no column instead of returning
RECURSIVE HeaderLoopSkipsUnknown(_, _, _, _)
HeaderLoopSkipsUnknown(cs, fc, hdr, i) ==
    IF i > Len(hdr) THEN [err |-> CheckRequired(cs), cols |-> cs, foundCols |-> fc]
    ELSE LET m == MatchCols(cs, fc, ToLower(TrimSpace(hdr[i])), i - 1, 1, FALSE) IN
         HeaderLoopSkipsUnknown(m.cols, m.foundCols, hdr, i + 1)

\* the header loop of ParseHeader from position i (1-based) on
RECURSIVE HeaderLoop(_, _, _, _)
HeaderLoop(cs, fc, hdr, i) ==
    IF i > Len(hdr) THEN [err |-> CheckRequired(cs), cols |-> cs, foundCols |-> fc]
    ELSE LET m == MatchCols(cs, fc, ToLower(TrimSpace(hdr[i])), i - 1, 1, FALSE) IN
         IF ~m.found
         THEN [err |-> NewIncorrectFileErr("Unexpected column", hdr[i]),
               cols |-> m.cols, foundCols |-> m.foundCols]
         ELSE HeaderLoop(m.cols, m.foundCols, hdr, i + 1)

\* ParseHeader on a binder whose columns are cs and bound columns fc
ParseHeaderResult(cs, fc, hdr) ==
    LET r == reset(cs, fc) IN HeaderLoop(r.cols, r.foundCols, hdr, 1)

\* ------------------------------------------------------------------ decode
PanicErr == [kind |-> "panic", what |-> "index out of range", arg |-> <<>>]

\* the fields cur of the target after a setField of field fi with outcome r
Store(cur, fi, r) == IF r.written THEN [cur EXCEPT ![fi] = r.val] ELSE cur
\* the error of r if it has one, else that of rest, with the fields of rest
FirstErr(r, rest) == IF r.err # Nil THEN [err |-> r.err, rv |-> rest.rv] ELSE rest

\* an unmarshal loop that goes on after a failed column and returns the first
\* error once every column is done
RECURSIVE unmarshalGoesOn(_, _, _, _, _, _, _)
unmarshalGoesOn(v, sh, cs, fc, rec, k, cur) ==
    IF k > Len(fc) THEN [err |-> Nil, rv |-> cur]
    ELSE LET c == cs[fc[k]] IN
         IF c.RecordIndex < 0 \/ c.RecordIndex >= Len(rec)
         THEN [err |-> PanicErr, rv |-> cur]
         ELSE LET s == rec[c.RecordIndex + 1]
                  fi == c.StructFieldIndex + 1
              IN  IF (v = 1 /\ ~c.Required /\ Len(s) = 0) \/ ~CanSet(sh[fi])
                  THEN unmarshalGoesOn(v, sh, cs, fc, rec, k + 1, cur)
                  ELSE FirstErr(setField(v, sh[fi].Type, s),
                                unmarshalGoesOn(v, sh, cs, fc, rec, k + 1,
                                    Store(cur, fi, setField(v, sh[fi].Type, s))))

\* the loop of unmarshal from the k-th bound column on, cur being the fields of
\* the target so far
RECURSIVE unmarshalFrom(_, _, _, _, _, _, _)
\* after setField of field fi gave r: its error returned, or the next column
ReturnOrGoOn(v, sh, cs, fc, rec, k, cur, fi, r) ==
    IF r.err # Nil THEN [err |-> r.err, rv |-> Store(cur, fi, r)]
    ELSE unmarshalFrom(v, sh, cs, fc, rec, k + 1, Store(cur, fi, r))
unmarshalFrom(v, sh, cs, fc, rec, k, cur) ==
    IF k > Len(fc) THEN [err |-> Nil, rv |-> cur]
    ELSE LET c == cs[fc[k]] IN
         IF c.RecordIndex < 0 \/ c.RecordIndex >= Len(rec)
         THEN [err |-> PanicErr, rv |-> cur]
         ELSE LET s == rec[c.RecordIndex + 1]
                  fi == c.StructFieldIndex + 1
              IN  IF v = 1 /\ ~c.Required /\ Len(s) = 0
                  THEN unmarshalFrom(v, sh, cs, fc, rec, k + 1, cur)
                  ELSE IF ~CanSet(sh[fi])
                  THEN unmarshalFrom(v, sh, cs, fc, rec, k + 1, cur)
                  ELSE ReturnOrGoOn(v, sh, cs, fc, rec, k, cur, fi,
                                    setField(v, sh[fi].Type, s))

unmarshal(v, sh, cs, fc, rec, cur) == unmarshalFrom(v, sh, cs, fc, rec, 1, cur)

\* an UnmarshalCSV that looks at the type of the target before the row length
UnmarshalCSVTypeFirst(v, sh, cs, fc, rec, vt, cur) ==
    IF vt # "Record" THEN [err |-> TypeMismatchErr, rv |-> cur]
    ELSE IF Len(rec) # Len(fc) THEN [err |-> RowShapeErr, rv |-> cur]
    ELSE unmarshal(v, sh, cs, fc, rec, cur)

\* UnmarshalCSV: the row length, then the type of the target, then unmarshal
UnmarshalCSVResult(v, sh, cs, fc, rec, vt, cur) ==
    IF Len(rec) # Len(fc) THEN [err |-> RowShapeErr, rv |-> cur]
    ELSE IF vt # "Record" THEN [err |-> TypeMismatchErr, rv |-> cur]
    ELSE unmarshal(v, sh, cs, fc, rec, cur)

\* ------------------------------------------------------------------ inputs
Field(name, type, tag) == [Name |-> name, Type |-> type, Tag |-> tag]
NoTag == <<>>
Req(name) == name \o <<",">> \o RequiredFlag

\* the struct types given to NewDecodeStruct
Shapes ==
    { \* Name string `csv:"Nm,required"`; Age int16 `csv:"Ag,required"`; Sc float64
      << Field(<<"N","a","m","e">>, <<"string">>, Req(<<"N","m">>)),
         Field(<<"A","g","e">>, <<"int16">>, Req(<<"A","g">>)),
         Field(<<"S","c">>, <<"float64">>, NoTag) >>,
      \* A int8 `csv:",required"`
      << Field(<<"A">>, <<"int8">>, Req(<<>>)) >>,
      \* M map[string]string `csv:"-"`; A string
      << Field(<<"M">>, <<"map">>, IgnoreTag), Field(<<"A">>, <<"string">>, NoTag) >>,
      \* Skip string `csv:"-"`; A int8 `csv:"a,required"`
      << Field(<<"S","k">>, <<"string">>, IgnoreTag),
         Field(<<"A">>, <<"int8">>, Req(<<"a">>)) >>,
      \* M map[string]string            S struct{...}            L []string
      << Field(<<"M">>, <<"map">>, NoTag) >>,
      << Field(<<"S">>, <<"struct">>, NoTag) >>,
      << Field(<<"L">>, <<"slice">>, NoTag) >>,
      \* A string; R [2]int             C chan int               PM *map[string]string
      << Field(<<"A">>, <<"string">>, NoTag), Field(<<"R">>, <<"array">>, NoTag) >>,
      << Field(<<"C">>, <<"chan">>, NoTag) >>,
      << Field(<<"P","M">>, <<"ptr", "map">>, NoTag) >>,
      \* PP **int8 `csv:"pp"`
      << Field(<<"P","P">>, <<"ptr", "ptr", "int8">>, <<"p","p">>) >>,
      \* P *int8; B bool `csv:"b,required"`
      << Field(<<"P">>, <<"ptr", "int8">>, NoTag),
         Field(<<"B">>, <<"bool">>, Req(<<"b">>)) >>,
      \* X int8 `csv:"x"`; Y int8 `csv:"X"`
      << Field(<<"X">>, <<"int8">>, <<"x">>), Field(<<"Y">>, <<"int8">>, <<"X">>) >>,
      \* T time.Time `csv:"t,required"`; U uint8 `csv:"u"`
      << Field(<<"T">>, <<"time.Time">>, Req(<<"t">>)),
         Field(<<"U">>, <<"uint8">>, <<"u">>) >>,
      \* hid string; I int `csv:"i,required"`
      << Field(<<"h","i","d">>, <<"string">>, NoTag),
         Field(<<"I">>, <<"int">>, Req(<<"i">>)) >>,
      \* U uint8 `csv:"u,required"`; F float64 `csv:"f,required"`
      << Field(<<"U">>, <<"uint8">>, Req(<<"u">>)),
         Field(<<"F">>, <<"float64">>, Req(<<"f">>)) >>,
      \* B bool; T time.Time
      << Field(<<"B">>, <<"bool">>, NoTag), Field(<<"T">>, <<"time.Time">>, NoTag) >>,
      \* S string `csv:"s,opt"`; PS *string `csv:"ps,required"`
      << Field(<<"S">>, <<"string">>, <<"s",",","o","p","t">>),
         Field(<<"P","S">>, <<"ptr", "string">>, Req(<<"p","s">>)) >> }

SeqsUpTo(S, n) == UNION {[1..k -> S] : k \in 0..n}

\* header cells for a binder: the first column's name in upper case between
\* spaces, the other columns' names as they are, and a name of no column
ExtraCell == <<"E","x">>
HeaderCells(cs) ==
    {IF j = 1 THEN <<" ">> \o ToUpper(cs[j].Header) \o <<" ">> ELSE cs[j].Header :
        j \in 1..Len(cs)} \cup {ExtraCell}
Headers(cs) == SeqsUpTo(HeaderCells(cs), MaxHeaderLen)

\* row cells for a field type: the empty cell, text its kind parses, text it
\* rejects, and numbers beyond its width
ValidTime == <<"2","0","1","7","-","1","0","-","0","9","T","1","2",":","3","0",":",
               "3","0","Z">>
HugeNumber == <<"9","9","9","9","9","9","9","9","9","9","9","9","9","9","9","9","9",
                "9","9","9","9">>
CellsOf(t) ==
    LET k == BaseKind(t) IN
    {<<>>} \cup
    (IF k = "string" THEN {<<"x">>}
     ELSE IF k = "int8" THEN {<<"7">>, <<"-","3">>, <<"3","0","0">>, <<"x">>}
     ELSE IF k = "int16" THEN {<<"7">>, <<"4","0","0","0","0">>}
     ELSE IF k \in {"uint8", "uint16"} THEN {<<"7">>, <<"3","0","0">>}
     ELSE IF k \in IntKinds \cup UintKinds THEN {<<"7">>, HugeNumber}
     ELSE IF k = "bool" THEN {<<"t","r","u","e">>, <<"x">>}
     ELSE IF k \in FloatKinds THEN {<<"1",".","5">>, <<"x">>}
     ELSE IF k = "time.Time" THEN {ValidTime, <<"x">>}
     ELSE {<<"x">>})
FillerCell == <<"7">>
\* the cells for position i of a row: those of the types of the fields whose
\* bound column reads that position, one cell where no column reads it
CellsAt(sh, cs, fc, i) ==
    IF \E k \in 1..Len(fc) : cs[fc[k]].RecordIndex = i - 1
    THEN UNION {CellsOf(sh[cs[fc[k]].StructFieldIndex + 1].Type) :
                   k \in {x \in 1..Len(fc) : cs[fc[x]].RecordIndex = i - 1}}
    ELSE {FillerCell}
RECURSIVE RowsFrom(_, _, _, _)
RowsFrom(sh, cs, fc, i) ==
    IF i > Len(fc) THEN {<<>>}
    ELSE {<<c>> \o r : c \in CellsAt(sh, cs, fc, i), r \in RowsFrom(sh, cs, fc, i + 1)}
\* rows of every length made of one cell (a row of the wrong length is rejected
\* before any cell is read), and the rows of as many cells as bound columns
FillerRows == SeqsUpTo({FillerCell}, MaxRowLen)
Rows(sh, cs, fc) == RowsFrom(sh, cs, fc, 1) \cup FillerRows

\* a target whose fields all hold a value that no row of the model decodes to
RECURSIVE Dirty(_)
Dirty(t) ==
    IF Kind(t) = "ptr" THEN <<Dirty(Elem(t))>>
    ELSE IF Kind(t) \in IntKinds \cup UintKinds THEN 1
    ELSE IF Kind(t) = "bool" THEN FALSE
    ELSE IF Kind(t) \in FloatKinds THEN FloatVal(FALSE, <<"9">>, <<>>)
    ELSE IF TypeString(t) = "time.Time" THEN [ZeroTime EXCEPT !.y = 1999]
    ELSE <<"o">>
DirtyRecord(sh) == [i \in 1..Len(sh) |-> Dirty(sh[i].Type)]

\* ------------------------------------------------------------------ actions
Init ==
    /\ variant \in {1, 2}
    /\ shape \in Shapes
    /\ status = "unbuilt"
    /\ cols = <<>>
    /\ foundCols = <<>>
    /\ op = "none"
    /\ header = <<>>
    /\ hdrErr = Nil
    /\ prevOK = FALSE
    /\ record = <<>>
    /\ vType = "none"
    /\ rv0 = <<>>
    /\ rv = <<>>
    /\ decErr = Nil
    /\ ret = "none"

\* NewDecodeStruct(shape)
NewDecodeStruct ==
    /\ status = "unbuilt"
    /\ LET b == NewDecodeStructResult(variant, shape) IN
       /\ status' = IF b.panicked THEN "panic" ELSE "built"
       /\ cols' = b.cols
    /\ foundCols' = <<>>
    /\ op' = "New"
    /\ UNCHANGED <<variant, shape, header, hdrErr, prevOK, record, vType, rv0, rv, decErr,
                   ret>>

\* the caller reconciles headers, then decodes one row and stops: a decode
\* changes neither cols nor foundCols, so what follows it adds no binding state
DecodeOps == {"UnmarshalCSV", "GetStruct"}

\* r.ParseHeader(hdr)
ParseHeader ==
    /\ status = "built"
    /\ op \notin DecodeOps
    /\ \E hdr \in Headers(cols) :
         LET p == ParseHeaderResult(cols, foundCols, hdr) IN
         /\ cols' = p.cols
         /\ foundCols' = p.foundCols
         /\ hdrErr' = p.err
         /\ header' = hdr
    /\ prevOK' = (op = "ParseHeader" /\ hdrErr = Nil)
    /\ op' = "ParseHeader"
    /\ UNCHANGED <<variant, shape, status, record, vType, rv0, rv, decErr, ret>>

\* r.UnmarshalCSV(rec, v), v a pointer to a struct of the binder's type whose
\* fields hold earlier values, or to a struct of another type
UnmarshalCSV ==
    /\ status = "built"
    /\ op \notin DecodeOps
    /\ \E vt \in {"Record", "Other"} :
       \E rec \in (IF vt = "Record" THEN Rows(shape, cols, foundCols) ELSE FillerRows) :
       \E v0 \in (IF vt = "Record" THEN {DirtyRecord(shape)} ELSE {<<0>>}) :
         LET u == UnmarshalCSVResult(variant, shape, cols, foundCols, rec, vt, v0) IN
         /\ record' = rec
         /\ vType' = vt
         /\ rv0' = v0
         /\ rv' = u.rv
         /\ decErr' = u.err
    /\ op' = "UnmarshalCSV"
    /\ ret' = "none"
    /\ prevOK' = FALSE
    /\ UNCHANGED <<variant, shape, status, cols, foundCols, header, hdrErr>>

\* r.GetStruct(rec): a new zero struct, UnmarshalCSV into it; nil on an error
GetStruct ==
    /\ status = "built"
    /\ op \notin DecodeOps
    /\ \E rec \in Rows(shape, cols, foundCols) :
         LET v0 == ZeroRecord(shape)
             u == UnmarshalCSVResult(variant, shape, cols, foundCols, rec, "Record", v0)
         IN
         /\ record' = rec
         /\ vType' = "Record"
         /\ rv0' = v0
         /\ rv' = u.rv
         /\ decErr' = u.err
         /\ ret' = IF u.err # Nil THEN "nil" ELSE "v"
    /\ op' = "GetStruct"
    /\ prevOK' = FALSE
    /\ UNCHANGED <<variant, shape, status, cols, foundCols, header, hdrErr>>

Next == NewDecodeStruct \/ ParseHeader \/ UnmarshalCSV \/ GetStruct

Spec == Init /\ [][Next]_vars

\* ------------------------------------------------------------------ claims
MinOf(S) == CHOOSE x \in S : \A y \in S : x <= y
\* the header cell at position i (1-based) as ParseHeader compares it
Norm(i) == ToLower(TrimSpace(header[i]))
ColumnNames == {cols[j].Header : j \in 1..Len(cols)}
HeaderNames == {Norm(i) : i \in 1..Len(header)}

\* C1: ParseHeader returns nil exactly when every header cell, trimmed and
\* lowercased, is the name of a column and every required column's name is in
\* the header; otherwise "Unexpected column" with the first header cell of no
\* column, as given, and only when there is none "Mandatory column ... is
\* missing" with the first required column, in declaration order, not in the
\* header.
C1_ParseHeaderOutcome ==
    op = "ParseHeader" =>
        LET unknown == {i \in 1..Len(header) : Norm(i) \notin ColumnNames}
            missing == {j \in 1..Len(cols) :
                            cols[j].Required /\ cols[j].Header \notin HeaderNames}
        IN  hdrErr = IF unknown # {}
                     THEN NewIncorrectFileErr("Unexpected column", header[MinOf(unknown)])
                     ELSE IF missing # {}
                     THEN NewIncorrectFileErr("Mandatory column is missing",
                                              cols[MinOf(missing)].Header)
                     ELSE Nil

\* C1 witness: an unknown cell after a known one, in a header that also lacks a
\* required column: the unexpected column is what is reported.
C1_Witness ==
    /\ op = "ParseHeader"
    /\ Len(header) >= 2
    /\ Norm(1) \in ColumnNames
    /\ hdrErr = NewIncorrectFileErr("Unexpected column", header[2])
    /\ \E j \in 1..Len(cols) : cols[j].Required /\ cols[j].Header \notin HeaderNames

\* C2: whatever ParseHeader calls came before, the last call returns what it
\* returns on a binder just built, and leaves the same RecordIndex in every
\* column and the same foundCols: no column absent from the last header keeps a
\* RecordIndex, and foundCols holds only columns the last header names.
C2_ResetBeforeParse ==
    op = "ParseHeader" =>
        LET fresh == NewDecodeStructResult(variant, shape)
            p == ParseHeaderResult(fresh.cols, <<>>, header)
        IN  /\ hdrErr = p.err
            /\ cols = p.cols
            /\ foundCols = p.foundCols
            /\ \A j \in 1..Len(cols) :
                 cols[j].Header \notin HeaderNames => cols[j].RecordIndex = -1
            /\ \A k \in 1..Len(foundCols) : cols[foundCols[k]].Header \in HeaderNames

\* C2 witness: the call before succeeded, so it bound every required column;
\* the last header lacks one of them, which is found unbound and reported.
C2_Witness ==
    /\ op = "ParseHeader"
    /\ prevOK
    /\ hdrErr.what = "Mandatory column is missing"
    /\ \E j \in 1..Len(cols) : cols[j].Required /\ cols[j].RecordIndex = -1

\* ------------------------------------------------------------------ decode claims
\* the last decode got past the two checks of UnmarshalCSV
Passed == op \in DecodeOps /\ Len(record) = Len(foundCols) /\ vType = "Record"
\* the k-th bound column, the cell it reads, its field and the field's index
Col(k) == cols[foundCols[k]]
Cell(k) == record[Col(k).RecordIndex + 1]
Fi(k) == Col(k).StructFieldIndex + 1
FieldOf(k) == shape[Fi(k)]
\* unmarshal passes over the k-th bound column without setting its field
Skipped(k) == (variant = 1 /\ ~Col(k).Required /\ Cell(k) = <<>>) \/ ~CanSet(FieldOf(k))
\* what setting the field of the k-th bound column from its cell gives
Coerce(k) == setField(variant, FieldOf(k).Type, Cell(k))

\* C4: a decode returns the row-shape error exactly when the row has not as
\* many cells as foundCols has entries; a row of that length with a target of
\* another type gets the type-mismatch error; either way the target is untouched.
C4_RowShapeFirst ==
    op \in DecodeOps =>
        /\ (decErr = RowShapeErr) <=> (Len(record) # Len(foundCols))
        /\ (Len(record) = Len(foundCols) /\ vType # "Record") => decErr = TypeMismatchErr
        /\ (decErr = TypeMismatchErr) => vType # "Record"
        /\ decErr \in {RowShapeErr, TypeMismatchErr} => rv = rv0

\* C4 witness: after a successful ParseHeader that bound more columns than the
\* header has cells, a row as long as the header, given with a target of
\* another type, gets the row-shape error.
C4_Witness ==
    /\ op = "UnmarshalCSV"
    /\ hdrErr = Nil
    /\ vType = "Other"
    /\ Len(record) = Len(header)
    /\ Len(foundCols) # Len(header)
    /\ decErr = RowShapeErr
    /\ rv = rv0

\* C6: when some bound column's coercion fails, the decode returns the error of
\* the first such column k; the fields of the columns before k hold their
\* coerced values, and the fields of no column up to k are as they were.
FailingCols == {k \in 1..Len(foundCols) : ~Skipped(k) /\ Coerce(k).err # Nil}
C6_NoRollback ==
    (Passed /\ FailingCols # {}) =>
        LET k == MinOf(FailingCols) IN
        /\ decErr = Coerce(k).err
        /\ \A j \in 1..(k - 1) : ~Skipped(j) => rv[Fi(j)] = Coerce(j).val
        /\ \A f \in 1..Len(shape) : f \notin {Fi(j) : j \in 1..k} => rv[f] = rv0[f]

\* C6 witness: three bound columns, the second fails: the first field is
\* written, the third, whose cell would have changed it, is not.
C6_Witness ==
    /\ Passed
    /\ Len(foundCols) = 3
    /\ FailingCols # {}
    /\ MinOf(FailingCols) = 2
    /\ IsParseErr(decErr)
    /\ ~Skipped(1) /\ rv[Fi(1)] = Coerce(1).val /\ rv[Fi(1)] # rv0[Fi(1)]
    /\ Fi(3) \notin {Fi(1), Fi(2)}
    /\ ~Skipped(3) /\ Coerce(3).err = Nil /\ Coerce(3).val # rv0[Fi(3)]
    /\ rv[Fi(3)] = rv0[Fi(3)]

\* ------------------------------------------------------------------ coercion claims
Scalars == IntKinds \cup UintKinds \cup FloatKinds \cup {"bool", "string"}
\* the types the claims call supported: a scalar, time.Time, or a pointer to one
ClaimSupported(t) ==
    \/ Len(t) = 1 /\ t[1] \in Scalars \cup {"time.Time"}
    \/ Len(t) = 2 /\ t[1] = "ptr" /\ t[2] \in Scalars \cup {"time.Time"}
\* the values an integer kind holds
RangeOf(k) ==
    IF k = "int8" THEN -128..127
    ELSE IF k = "int16" THEN -32768..32767
    ELSE IF k = "uint8" THEN 0..255
    ELSE IF k = "uint16" THEN 0..65535
    ELSE IF k \in UintKinds THEN Nat
    ELSE Int
\* the text s is what a value of type t (pointers aside) is written as, and the
\* value it writes
ParseOf(t, s) ==
    LET k == BaseKind(t) IN
    IF k = "bool" THEN ParseBool(s)
    ELSE IF k \in IntKinds THEN ParseInt(s)
    ELSE IF k \in UintKinds THEN ParseUint(s)
    ELSE IF k \in FloatKinds THEN ParseFloat(s)
    ELSE IF k = "time.Time" THEN ParseTime(s)
    ELSE [err |-> Nil, val |-> s]
Parseable(t, s) ==
    /\ BaseKind(t) \in Scalars \cup {"time.Time"}
    /\ ParseOf(t, s).err = Nil
    /\ BaseKind(t) \in IntKinds \cup UintKinds => ParseOf(t, s).val \in RangeOf(BaseKind(t))
RECURSIVE Expected(_, _)
Expected(t, s) ==
    IF Kind(t) = "ptr" THEN <<Expected(Elem(t), s)>> ELSE ParseOf(t, s).val

\* the columns (indices into cols) whose name is the header cell at position i
ColsAt(i) == {j \in 1..Len(cols) : cols[j].Header = Norm(i)}
FieldOfCol(j) == shape[cols[j].StructFieldIndex + 1]
DistinctHeader == \A i, j \in 1..Len(header) : i # j => Norm(i) # Norm(j)
\* a row for the last header: as many cells, each non-empty and parseable for
\* the columns at its position
RowForHeader ==
    /\ Len(record) = Len(header)
    /\ \A i \in 1..Len(header) : \A j \in ColsAt(i) :
         record[i] # <<>> /\ Parseable(FieldOfCol(j).Type, record[i])
\* the fields of the decoded struct are the coerced cells of their columns, and
\* zero where the header has no column for them
DecodedFromRow ==
    /\ decErr = Nil
    /\ ret = "v"
    /\ \A i \in 1..Len(header) : \A j \in ColsAt(i) :
         rv[cols[j].StructFieldIndex + 1] = Expected(FieldOfCol(j).Type, record[i])
    /\ \A f \in 1..Len(shape) :
         (\A j \in 1..Len(cols) :
            cols[j].StructFieldIndex + 1 = f => cols[j].Header \notin HeaderNames)
         => rv[f] = Zero(shape[f].Type)

\* C3 (as claimed): after a successful ParseHeader of a header of distinct
\* columns, GetStruct of a row of parseable, non-empty cells returns a struct
\* whose fields are the coerced cells of their columns, the others zero.
C3_Original ==
    (op = "GetStruct" /\ hdrErr = Nil /\ DistinctHeader /\ RowForHeader) => DecodedFromRow

\* C3, where it holds: the same when no two columns share a name, every
\* field with a column is exported, and no field is a pointer to a pointer.
PlainShape ==
    /\ \A i, j \in 1..Len(cols) : i # j => cols[i].Header # cols[j].Header
    /\ \A j \in 1..Len(cols) : CanSet(FieldOfCol(j)) /\ Len(FieldOfCol(j).Type) <= 2
C3_PlainShapes ==
    (op = "GetStruct" /\ hdrErr = Nil /\ DistinctHeader /\ RowForHeader /\ PlainShape)
        => DecodedFromRow
C3_PlainWitness ==
    /\ op = "GetStruct" /\ hdrErr = Nil /\ DistinctHeader /\ RowForHeader /\ PlainShape
    /\ Len(header) = 2 /\ Len(cols) = 3
    /\ cols[foundCols[1]].StructFieldIndex > cols[foundCols[2]].StructFieldIndex

\* C5 (as claimed): an empty cell of an optional column leaves the field as it
\* was and is no error; an empty cell of a required column sets a string field
\* to "" and makes the decode fail with a parse error for the other kinds.
EmptyOptional(k) == ~Col(k).Required /\ Cell(k) = <<>>
EmptyRequired(k) == Col(k).Required /\ Cell(k) = <<>>
EmptyCellsBody ==
    Passed =>
        /\ \A k \in 1..Len(foundCols) : EmptyOptional(k) => rv[Fi(k)] = rv0[Fi(k)]
        /\ (\A k \in 1..Len(foundCols) :
              EmptyOptional(k) \/ Parseable(FieldOf(k).Type, Cell(k))) => decErr = Nil
        /\ \A k \in 1..Len(foundCols) :
             (EmptyRequired(k) /\ BaseKind(FieldOf(k).Type) = "string" /\ decErr = Nil
              /\ CanSet(FieldOf(k)))
             => rv[Fi(k)] = Expected(FieldOf(k).Type, <<>>)
        /\ (\E k \in 1..Len(foundCols) :
              EmptyRequired(k) /\ BaseKind(FieldOf(k).Type) # "string") => IsParseErr(decErr)
C5_Original ==
    (\A k \in 1..Len(foundCols) : ClaimSupported(FieldOf(k).Type)) => EmptyCellsBody

\* C5 in variant 1, whose unmarshal passes over the empty cells of optional
\* columns (pointers to pointers, which variant 1 alone decodes, aside)
C5_Variant1 == variant = 1 => EmptyCellsBody
C5_Variant1Witness ==
    /\ variant = 1 /\ Passed /\ decErr = Nil /\ op = "UnmarshalCSV"
    /\ \E k \in 1..Len(foundCols) : EmptyOptional(k) /\ BaseKind(FieldOf(k).Type) = "bool"
    /\ \E k \in 1..Len(foundCols) : ~EmptyOptional(k)

\* C7 (as claimed): a decode fails when an integer cell's value is outside the
\* range of its field's kind, and a successful decode stores the cell's value.
C7_Original ==
    Passed =>
        \A k \in 1..Len(foundCols) :
            LET t == FieldOf(k).Type
                p == ParseOf(t, Cell(k))
            IN  (Kind(t) \in IntKinds \cup UintKinds /\ Cell(k) # <<>> /\ p.err = Nil)
                => /\ p.val \notin RangeOf(Kind(t)) => decErr # Nil
                   /\ decErr = Nil => rv[Fi(k)] = p.val

\* ------------------------------------------------------------------ build claims
Ignored(f) == f.Tag = IgnoreTag
\* the fields NewDecodeStruct is to keep, in declaration order
Kept == {i \in 1..Len(shape) : ~Ignored(shape[i])}
KeptNth(n) == CHOOSE i \in Kept : Cardinality({x \in Kept : x <= i}) = n
\* the name and the flags an annotation gives
Override(f) == IF f.Tag = <<>> THEN <<>> ELSE Split(f.Tag, defaultCSVTagFieldSep)[1]
Flags(f) ==
    IF f.Tag = <<>> THEN {}
    ELSE LET tf == Split(f.Tag, defaultCSVTagFieldSep) IN {tf[i] : i \in 2..Len(tf)}
ClaimedName(f) == ToLower(IF Override(f) # <<>> THEN Override(f) ELSE f.Name)

\* C8 (as claimed): NewDecodeStruct panics when some field's type is not a
\* scalar, time.Time or one pointer to one of those.
C8_Original ==
    (status # "unbuilt" /\ \E i \in 1..Len(shape) : ~ClaimSupported(shape[i].Type))
        => status = "panic"

\* C9 (as claimed): a field tagged "-" gets no column and its type is not
\* checked: NewDecodeStruct succeeds when every other field is supported.
C9_Original ==
    (status # "unbuilt" /\ \A i \in Kept : ClaimSupported(shape[i].Type))
        => /\ status = "built"
           /\ \A j \in 1..Len(cols) : cols[j].StructFieldIndex + 1 \in Kept

\* C10 (as claimed): one column per field not ignored, in declaration order,
\* named by the lowercased override when there is a non-empty one and by the
\* lowercased field name otherwise, required only if the flag was given.
C10_Original ==
    status = "built" =>
        /\ Len(cols) = Cardinality(Kept)
        /\ \A n \in 1..Len(cols) :
             LET f == shape[KeptNth(n)] IN
             /\ cols[n].StructFieldIndex + 1 = KeptNth(n)
             /\ cols[n].Header = ClaimedName(f)
             /\ cols[n].Required => RequiredFlag \in Flags(f)

\* ------------------------------------------------------------------ bound indices
\* C11: in every state, every entry of foundCols has a RecordIndex r with
\* 0 <= r < Len(foundCols); so a decode whose row has passed the row-length
\* check never reads a cell outside the row (it never ends in the index panic),
\* also before any ParseHeader and after a failed one.
C11_BoundIndexInRow ==
    /\ \A k \in 1..Len(foundCols) :
         /\ cols[foundCols[k]].RecordIndex >= 0
         /\ cols[foundCols[k]].RecordIndex < Len(foundCols)
    /\ (op \in DecodeOps /\ Len(record) = Len(foundCols)) => decErr # PanicErr

\* C11 witness: a failed ParseHeader whose header named one column twice before
\* the unknown cell; the column is twice in foundCols and reads the last cell of
\* a row of that length, which a decode into the binder's struct has read.
C11_Witness ==
    /\ Passed
    /\ hdrErr.what = "Unexpected column"
    /\ Len(foundCols) >= 2
    /\ foundCols[1] = foundCols[2]
    /\ Col(1).RecordIndex = Len(record) - 1
    /\ ~Skipped(1)
    /\ Coerce(1).err = Nil
    /\ decErr = Nil

\* C11 second case: a decode before any ParseHeader, on the empty row
C11_WitnessUnbound ==
    /\ op \in DecodeOps
    /\ header = <<>> /\ foundCols = <<>> /\ record = <<>>
    /\ vType = "Record" /\ decErr = Nil
====
